---- MODULE Spec2Model ----
(***************************************************************************)
(* Model of the news portal's clustering pipeline and scheduler:           *)
(*   services/clustering.ts  (tokenize .. runClusteringJob)                *)
(*   ai/synthesis.ts         (synthesizeArticles)                          *)
(*   services/scheduler.ts   (jobStatus, runIngestionJob,                  *)
(*                            runClusteringJobWrapper)                     *)
(*   routes/stories.ts       (POST /stories/cluster)                       *)
(* Numbers that are floating point in the program are fixed-point integers *)
(* here, scaled by Scale; NaN is a value of its own.                       *)
(***************************************************************************)
EXTENDS Integers, Sequences, FiniteSets, TLC

(* ------------------------------ bounds -------------------------------- *)

\* fixed-point scale of similarity values: 1.0 is Scale
Scale == 1000

\* the JavaScript NaN (0/0 of jaccardSimilarity)
NaN == -1

\* largest number of articles of a batch handed to clusterArticles alone
MaxBatch == 3

\* largest published_at of a batch handed to clusterArticles alone
MaxTime == 2

(* --------------------------- text and tokens --------------------------- *)

stopWords ==
    {"the", "a", "an", "and", "or", "but", "in", "on", "at", "to", "for",
     "of", "with", "by", "from", "is", "are", "was", "were", "be", "been",
     "being", "have", "has", "had", "do", "does", "did", "will", "would",
     "could", "should", "may", "might", "must", "shall", "can", "need",
     "its", "it", "this", "that", "these", "those", "he", "she", "they",
     "we", "you", "i", "his", "her", "their", "our", "your", "my", "as",
     "said", "says", "according", "also", "just", "about", "after", "before",
     "new", "first", "last", "year", "years", "day", "days", "time", "more",
     "some", "any", "all", "most", "other", "into", "over", "such", "no",
     "not", "only", "than", "then", "now", "out", "up", "down", "so", "if"}

\* A text is a sequence of whitespace-separated raw words.  LowerSplit is
\* what toLowerCase, the replacement of every non-word character by a blank
\* and the split at blanks make of one raw word.
LowerSplit(w) ==
    CASE w = "Oil"     -> <<"oil">>
      [] w = "oil,"    -> <<"oil">>
      [] w = "OPEC"    -> <<"opec">>
      [] w = "U.S."    -> <<"u", "s">>
      [] w = "The"     -> <<"the">>
      [] w = "Up"      -> <<"up">>
      [] w = "prices"  -> <<"prices">>
      [] w = "rise"    -> <<"rise">>
      [] w = "storm"   -> <<"storm">>
      [] w = "coast"   -> <<"coast">>
      [] w = "bank"    -> <<"bank">>
      [] w = "rates"   -> <<"rates">>
      [] w = "vote"    -> <<"vote">>
      [] OTHER         -> <<w>>

RECURSIVE SplitAll(_)
SplitAll(text) ==
    IF text = <<>> THEN <<>>
    ELSE LowerSplit(Head(text)) \o SplitAll(Tail(text))

keepWord(word) == Len(word) > 2 /\ word \notin stopWords

tokenize(text) == SelectSeq(SplitAll(text), keepWord)

Range(s) == {s[i] : i \in DOMAIN s}

\* the element of a set of one element.  The({e : x \in {v}}) is e with x
\* standing for the value of v, computed once however often e uses x.
The(S) == CHOOSE x \in S : TRUE

Count(s, t) == Cardinality({i \in DOMAIN s : s[i] = t})

\* floor of the square root, by bisection between lo and hi
RECURSIVE SqrtBetween(_, _, _)
SqrtBetween(x, lo, hi) ==
    IF lo >= hi THEN lo
    ELSE The({IF mid * mid <= x THEN SqrtBetween(x, mid, hi)
              ELSE SqrtBetween(x, lo, mid - 1)
                : mid \in {(lo + hi + 1) \div 2}})

\* Math.sqrt of a value of at most Scale * Scale
ISqrt(x) == SqrtBetween(x, 0, Scale)

jaccardSimilarity(tokens1, tokens2) ==
    LET set1 == Range(tokens1)
        set2 == Range(tokens2)
        intersection == {x \in set1 : x \in set2}
        union == set1 \cup set2
    IN  IF Cardinality(union) = 0 THEN NaN
        ELSE (Cardinality(intersection) * Scale) \div Cardinality(union)

\* acc plus the sum of f[x] over the x of S
RECURSIVE SumOver(_, _, _)
SumOver(S, f, acc) ==
    IF S = {} THEN acc
    ELSE The({SumOver(S \ {x}, f, acc + f[x]) : x \in {The(S)}})

cosineSimilarity(tokens1, tokens2) ==
    LET allTerms == Range(tokens1) \cup Range(tokens2)
        dot == [t \in allTerms |-> Count(tokens1, t) * Count(tokens2, t)]
        sq1 == [t \in allTerms |-> Count(tokens1, t) * Count(tokens1, t)]
        sq2 == [t \in allTerms |-> Count(tokens2, t) * Count(tokens2, t)]
        dotProduct == SumOver(allTerms, dot, 0)
        magnitude1 == SumOver(allTerms, sq1, 0)
        magnitude2 == SumOver(allTerms, sq2, 0)
    IN  IF magnitude1 = 0 \/ magnitude2 = 0 THEN 0
        ELSE ISqrt((Scale * Scale * dotProduct * dotProduct)
                       \div (magnitude1 * magnitude2))

\* floating point addition and division by a positive count, NaN absorbing
FAdd(a, b) == IF a = NaN \/ b = NaN THEN NaN ELSE a + b

FDiv(a, n) == IF a = NaN THEN NaN ELSE a \div n

\* the comparison, were a value equal to the threshold not to pass
FGt(a, b) == a # NaN /\ b # NaN /\ a > b

\* a >= b of JavaScript: false as soon as one side is NaN
FGe(a, b) == a # NaN /\ b # NaN /\ a >= b

\* the score, were it the greater of the two
FMax(a, b) == IF a = NaN \/ b = NaN THEN NaN ELSE IF a > b THEN a ELSE b

\* Math.min
FMin(a, b) == IF a = NaN \/ b = NaN THEN NaN ELSE IF a < b THEN a ELSE b

calculateSimilarity(article1, article2) ==
    The({LET jaccard == jaccardSimilarity(tokens1, tokens2)
             cosine == cosineSimilarity(tokens1, tokens2)
         IN  FDiv(FAdd(jaccard, cosine), 2)
           : tokens1 \in {tokenize(article1.title \o article1.excerpt)},
             tokens2 \in {tokenize(article2.title \o article2.excerpt)}})

(* ------------------------------ clustering ----------------------------- *)

\* the insertion of a sort that is not stable: a tie goes before its equals
RECURSIVE InsertBeforeTies(_, _)
InsertBeforeTies(sorted, a) ==
    IF sorted = <<>> THEN <<a>>
    ELSE IF Head(sorted).published_at > a.published_at
         THEN <<Head(sorted)>> \o InsertBeforeTies(Tail(sorted), a)
         ELSE <<a>> \o sorted

\* [...articles].sort(newest first): a stable insertion of every article
RECURSIVE InsertByRecency(_, _)
InsertByRecency(sorted, a) ==
    IF sorted = <<>> THEN <<a>>
    ELSE IF Head(sorted).published_at >= a.published_at
         THEN <<Head(sorted)>> \o InsertByRecency(Tail(sorted), a)
         ELSE <<a>> \o sorted

RECURSIVE SortByRecency(_)
SortByRecency(articles) ==
    IF articles = <<>> THEN <<>>
    ELSE InsertByRecency(SortByRecency(SubSeq(articles, 1, Len(articles) - 1)),
                         articles[Len(articles)])

RECURSIVE SumSimilarity(_, _, _)
SumSimilarity(members, candidate, k) ==
    IF k > Len(members) THEN 0
    ELSE FAdd(calculateSimilarity(members[k], candidate),
              SumSimilarity(members, candidate, k + 1))

avgSimilarity(members, candidate) ==
    FDiv(SumSimilarity(members, candidate, 1), Len(members))

\* the inner loop, were a candidate that joins the cluster not marked assigned
RECURSIVE ScanWithoutMarking(_, _, _, _)
ScanWithoutMarking(sorted, k, st, threshold) ==
    IF k > Len(sorted) THEN st
    ELSE IF sorted[k].id \in st.assigned
         THEN ScanWithoutMarking(sorted, k + 1, st, threshold)
         ELSE The({IF FGe(avg, threshold)
                   THEN The({ScanWithoutMarking(sorted, k + 1, grown, threshold)
                               : grown \in
                                 {[st EXCEPT !.cluster.articles = Append(@, sorted[k]),
                                             !.cluster.similarity = FMin(@, avg)]}})
                   ELSE ScanWithoutMarking(sorted, k + 1, st, threshold)
                     : avg \in {avgSimilarity(st.cluster.articles, sorted[k])}})

\* the inner loop, were it run again for as long as an unassigned candidate
\* reaches the threshold against the members the cluster has by then
RECURSIVE ScanRepeatedly(_, _, _, _)
ScanRepeatedly(sorted, k, st, threshold) ==
    IF k > Len(sorted)
    THEN IF \E j \in DOMAIN sorted :
               /\ sorted[j].id \notin st.assigned
               /\ FGe(avgSimilarity(st.cluster.articles, sorted[j]), threshold)
         THEN ScanRepeatedly(sorted, 1, st, threshold)
         ELSE st
    ELSE IF sorted[k].id \in st.assigned
         THEN ScanRepeatedly(sorted, k + 1, st, threshold)
         ELSE The({IF FGe(avg, threshold)
                   THEN The({ScanRepeatedly(sorted, k + 1, grown, threshold)
                               : grown \in
                                 {[cluster |->
                                     [articles |-> Append(st.cluster.articles, sorted[k]),
                                      similarity |-> FMin(st.cluster.similarity, avg)],
                                   assigned |-> st.assigned \cup {sorted[k].id}]}})
                   ELSE ScanRepeatedly(sorted, k + 1, st, threshold)
                     : avg \in {avgSimilarity(st.cluster.articles, sorted[k])}})

\* the inner loop of clusterArticles from candidate position k on
\* st = [cluster |-> [articles, similarity], assigned |-> set of ids]
RECURSIVE ScanCandidates(_, _, _, _)
ScanCandidates(sorted, k, st, threshold) ==
    IF k > Len(sorted) THEN st
    ELSE LET candidate == sorted[k]
         IN  IF candidate.id \in st.assigned
             THEN ScanCandidates(sorted, k + 1, st, threshold)
             ELSE The({IF FGe(avg, threshold)
                       THEN The({ScanCandidates(sorted, k + 1, grown, threshold)
                                   : grown \in
                                     {[cluster |->
                                         [articles |->
                                            Append(st.cluster.articles, candidate),
                                          similarity |->
                                            FMin(st.cluster.similarity, avg)],
                                       assigned |->
                                         st.assigned \cup {candidate.id}]}})
                       ELSE ScanCandidates(sorted, k + 1, st, threshold)
                         : avg \in {avgSimilarity(st.cluster.articles, candidate)}})

\* the outer loop of clusterArticles from seed position i on
RECURSIVE GrowClusters(_, _, _, _, _)
GrowClusters(sorted, i, clusters, assigned, threshold) ==
    IF i > Len(sorted) THEN clusters
    ELSE IF sorted[i].id \in assigned
         THEN GrowClusters(sorted, i + 1, clusters, assigned, threshold)
         ELSE The({GrowClusters(sorted, i + 1, Append(clusters, st.cluster),
                                st.assigned, threshold)
                     : st \in {ScanCandidates(sorted, 1,
                                  [cluster |-> [articles |-> <<sorted[i]>>,
                                                similarity |-> Scale],
                                   assigned |-> assigned \cup {sorted[i].id}],
                                  threshold)}})

clusterArticles(articles, threshold) ==
    The({GrowClusters(sorted, 1, <<>>, {}, threshold)
           : sorted \in {SortByRecency(articles)}})

(* ------------------------------ the store ------------------------------ *)

\* the absent value: null, undefined, a missing property
Null == "null"

\* a value that may be absent: None, or Some(v)
None == <<>>

Some(v) == <<v>>

\* the id that is no id: the null createStoryFromCluster returns
NoId == 0

\* bound on the entities POST /process goes through
MaxAnalysed == 2

\* most faults (an error or a rejection answered by a collaborator) of a run
\* of the model
MaxFaults == 1

\* most rows of the stories table
MaxStories == 2

\* most readings of the clock that differ
MaxClock == 1

\* getUnassignedArticles(48) of runClusteringJob, in hours
HoursBack == 48

\* .limit(100) of getUnassignedArticles
LimitRows == 100

\* the threshold runClusteringJob clusters with: 0.35
Threshold == (35 * Scale) \div 100

\* the clock when the process starts, in hours
StartTime == 50

\* the articles table with news_sources(name) joined; ingestion owns it
Corpus ==
    {[id |-> 1, title |-> <<"Oil", "prices", "rise">>, excerpt |-> Some(<<"OPEC">>),
      source |-> "AP", published_at |-> 14, image_url |-> Null],
     [id |-> 2, title |-> <<"oil,", "prices", "rise">>, excerpt |-> Some(<<"The", "U.S.">>),
      source |-> "Reuters", published_at |-> 13, image_url |-> "img2"],
     [id |-> 3, title |-> <<"storm", "coast">>, excerpt |-> Some(<<"storm">>),
      source |-> Null, published_at |-> 12, image_url |-> Null],
     [id |-> 4, title |-> <<"storm", "coast">>, excerpt |-> None,
      source |-> "BBC", published_at |-> 11, image_url |-> "img4"],
     [id |-> 5, title |-> <<"vote">>, excerpt |-> Some(<<"vote">>),
      source |-> "AP", published_at |-> 1, image_url |-> Null]}

\* the rows of a set, newest published_at first
RECURSIVE OrderByRecency(_)
OrderByRecency(rows) ==
    IF rows = {} THEN <<>>
    ELSE LET newest == CHOOSE a \in rows :
                          \A b \in rows : \/ a.published_at > b.published_at
                                          \/ /\ a.published_at = b.published_at
                                             /\ a.id <= b.id
         IN  <<newest>> \o OrderByRecency(rows \ {newest})

FirstRows(s, n) == SubSeq(s, 1, IF Len(s) < n THEN Len(s) ELSE n)

(* ------------------------------ synthesis ------------------------------ *)

\* The names of entities the model uses, each a sequence of characters.
Names ==
    [opec |-> <<"O", "P", "E", "C">>,
     opecLower |-> <<"o", "p", "e", "c">>,
     bigOil |-> <<"B", "i", "g", " ", "O", "i", "l">>,
     bigOilSnake |-> <<"b", "i", "g", "_", "o", "i", "l">>,
     shell |-> <<"S", "h", "e", "l", "l">>]

\* What the synthesis collaborator can answer to one call.  A payload is the
\* value JSON.parse makes of the text; a list the text leaves out is None.
FullPayload ==
    [title |-> <<"Oil", "shock">>,
     summary |-> <<"OPEC", "cuts">>,
     sections |-> Some(<<[title |-> "Summary",
                          content |-> <<<< <<"OPEC", "cuts">>, "AP" >>>>,
                          citations |-> <<[source |-> "AP", article_index |-> Some(1)],
                                          [source |-> "Reuters", article_index |-> None],
                                          [source |-> "BBC", article_index |-> Some(7)]>>]>>),
     entities |-> Some(<<[name |-> Names.opec, type |-> "company", role |-> "primary",
                          context |-> "cuts"]>>),
     connections |-> Some(<<[source |-> Names.opecLower, target |-> Names.opec,
                             relationship |-> "related_to", evidence |-> "cuts",
                             strength |-> 800]>>),
     impacts |-> Some(<<[sector |-> "economic", type |-> "negative", severity |-> 3,
                         prediction |-> "prices", confidence |-> 700]>>)]

NoSectionsPayload == [FullPayload EXCEPT !.sections = None]

NoEntitiesPayload == [FullPayload EXCEPT !.entities = None]

\* the text that is no JSON
Garbage == [title |-> <<"~">>, summary |-> <<>>, sections |-> None,
            entities |-> None, connections |-> None, impacts |-> None]

\* kind: the call rejects, resolves without content, or resolves with text;
\* fenced: the text is wrapped in a markdown code fence
Responses ==
    {[kind |-> "reject", fenced |-> FALSE, body |-> Garbage],
     [kind |-> "empty", fenced |-> FALSE, body |-> Garbage],
     [kind |-> "text", fenced |-> FALSE, body |-> Garbage],
     [kind |-> "text", fenced |-> FALSE, body |-> FullPayload],
     [kind |-> "text", fenced |-> TRUE, body |-> FullPayload],
     [kind |-> "text", fenced |-> FALSE, body |-> NoSectionsPayload],
     [kind |-> "text", fenced |-> FALSE, body |-> NoEntitiesPayload]}

\* the basic synthesis, were it made of the first article alone
FallbackOfFirstArticle(articles) ==
    [title |-> articles[1].title,
     summary |-> articles[1].excerpt,
     sections |-> Some(<<[title |-> "Summary",
                          content |-> << <<articles[1].excerpt, articles[1].source>> >>,
                          citations |-> <<[source |-> articles[1].source,
                                           article_id |-> articles[1].id]>>]>>),
     entities |-> Some(<<>>),
     connections |-> Some(<<>>),
     impacts |-> Some(<<>>)]

\* the basic synthesis of the catch block of synthesizeArticles
FallbackSynthesis(articles) ==
    [title |-> articles[1].title,
     summary |-> articles[1].excerpt,
     sections |-> Some(<<[title |-> "Summary",
                          content |-> [i \in DOMAIN articles |->
                                          <<articles[i].excerpt, articles[i].source>>],
                          citations |-> [i \in DOMAIN articles |->
                                          [source |-> articles[i].source,
                                           article_id |-> articles[i].id]]]>>),
     entities |-> Some(<<>>),
     connections |-> Some(<<>>),
     impacts |-> Some(<<>>)]

\* citation.article_index ?? 0, then articles[articleIndex]?.id || articles[0].id
CitedArticleId(articles, citation) ==
    LET articleIndex == IF citation.article_index = None THEN 0
                        ELSE citation.article_index[1]
    IN  IF articleIndex + 1 \in DOMAIN articles THEN articles[articleIndex + 1].id
        ELSE articles[1].id

MapCitations(articles, section) ==
    [title |-> section.title,
     content |-> section.content,
     citations |-> [k \in DOMAIN section.citations |->
                      [source |-> section.citations[k].source,
                       article_id |-> CitedArticleId(articles, section.citations[k])]]]

\* jsonStr: the fence is cut off when the trimmed text starts with one
StripFence(response) == [response EXCEPT !.fenced = FALSE]

\* JSON.parse throws: the text still carries a fence, or is no JSON at all
ParseThrows(text) == text.fenced \/ text.body = Garbage

\* the try block of synthesizeArticles throws on this response
SynthesisThrows(response) ==
    \/ response.kind = "reject"
    \/ response.kind = "empty"
    \/ ParseThrows(StripFence(response))
    \/ StripFence(response).body.sections = None

\* synthesizeArticles on the answer of the collaborator; articles is not empty
synthesizeArticles(articles, response) ==
    IF SynthesisThrows(response) THEN FallbackSynthesis(articles)
    ELSE [response.body EXCEPT
            !.sections = Some([k \in DOMAIN response.body.sections[1] |->
                                 MapCitations(articles, response.body.sections[1][k])])]

(* ------------------------------- state --------------------------------- *)

\* the callers of runClusteringJobWrapper: the cron task with the start-up
\* timer, and triggerClustering
ClusterWrappers == {"cron", "manual"}

\* the requests to POST /stories/cluster
RouteProcs == {"route"}

ClusterProcs == ClusterWrappers \cup RouteProcs

\* the callers of runIngestionJob: the cron task with the start-up timer, and
\* triggerIngestion
IngestProcs == {"icron", "imanual"}

VARIABLES
    jobStatus,          \* scheduler.ts jobStatus
    now,                \* the clock new Date() and Date.now() read
    run,                \* per caller: its activation of runClusteringJob
    ingest,             \* per caller: its activation of runIngestionJob
    reply,              \* per caller: what POST /stories/cluster sent, or
                        \* what the promise of runClusteringJobWrapper
                        \* resolved with
    articleRows,        \* table articles with news_sources(name) joined
    stories,            \* table stories
    story_articles,     \* table story_articles
    entities,           \* table entities
    story_entities,     \* table story_entities
    entity_connections, \* table entity_connections
    story_impacts,      \* table story_impacts
    faults,             \* errors and rejections answered so far
    input,              \* clusterArticles alone: its articles
    threshold,          \* clusterArticles alone: its threshold
    output,             \* clusterArticles alone: None, or Some(its clusters)
    again,              \* clusterArticles alone: the same of a second call
    answers,            \* what the synthesis collaborator can answer
    analysis,           \* the activation of POST /process, at its entity loop
    job_logs            \* table job_logs

tables == <<articleRows, stories, story_articles, entities, story_entities,
            entity_connections, story_impacts>>

alone == <<input, threshold, output, again>>

aside == <<answers, analysis, job_logs>>

vars == <<jobStatus, now, run, ingest, reply, articleRows, stories, story_articles, entities,
          story_entities, entity_connections, story_impacts, faults,
          input, threshold, output, again, answers, analysis, job_logs>>

NoSynthesis == [title |-> <<>>, summary |-> <<>>, sections |-> None,
                entities |-> None, connections |-> None, impacts |-> None]

ZeroResult == [articlesProcessed |-> 0, storiesCreated |-> 0, clusters |-> 0]

\* An activation of runClusteringJob.  pc is the await it is suspended at.
\* fetched, answer, attempts, synthCalls, writes, dbErrors (the persistence
\* calls that did not succeed), made (the ids of the Story rows inserted) and
\* merged (the rows the upserts into entity_connections wrote) only observe.
IdleRun ==
    [pc |-> "idle", since |-> 0, rows |-> <<>>, articles |-> <<>>,
     clusters |-> <<>>, ci |-> 0, storiesCreated |-> 0, attempts |-> <<>>,
     fetched |-> "none", answer |-> "none", synthesis |-> NoSynthesis,
     storyId |-> NoId, ret |-> NoId, ei |-> 0, entityId |-> NoId,
     ki |-> 0, sourceId |-> NoId, targetId |-> NoId,
     synthCalls |-> 0, writes |-> 0, dbErrors |-> 0, made |-> <<>>,
     merged |-> <<>>, result |-> ZeroResult]

\* POST /process between two entities (pc is "done" once it has returned);
\* served counts the entities it is done with
IdleAnalysis == [pc |-> "idle", entity |-> None, served |-> 0]

JobInit ==
    /\ jobStatus = [ingestion |-> [lastRun |-> None, isRunning |-> FALSE,
                                   lastResult |-> None],
                    clustering |-> [lastRun |-> None, isRunning |-> FALSE,
                                    lastResult |-> None]]
    /\ now = StartTime
    /\ run = [p \in ClusterProcs |-> IdleRun]
    /\ ingest = [p \in IngestProcs |-> "idle"]
    /\ reply = [p \in ClusterProcs |-> None]
    /\ stories = {}
    /\ story_articles = {}
    /\ entities = {}
    /\ story_entities = {}
    /\ entity_connections = {}
    /\ story_impacts = {}
    /\ faults = 0
    /\ analysis = IdleAnalysis
    /\ job_logs = {}

Init ==
    /\ JobInit
    /\ articleRows = Corpus
    /\ answers = Responses
    /\ input = <<>>
    /\ threshold = Threshold
    /\ output = None
    /\ again = None

\* a continuation that runs in the same turn of the event loop as the step
\* before it is pending: nothing else runs until it has run
Pending(p) == run[p].pc \in {"skipped", "clusterDone", "ret", "threw"}

Quiet ==
    /\ \A p \in ClusterProcs : ~Pending(p)
    /\ \A p \in IngestProcs : ingest[p] # "skipped"

CanFault == faults < MaxFaults

Fault == faults' = faults + 1

(* ------------------------- createStoryFromCluster ----------------------- *)

\* the catch block: return null
\* were the error of the insert into stories ignored, like that of the insert
\* into story_articles
FailUnlessStory(r) ==
    IF r.pc = "insertStory" THEN [r EXCEPT !.pc = "insertLinks"]
    ELSE [r EXCEPT !.pc = "clusterDone", !.ret = NoId]

Fail(r) == [r EXCEPT !.pc = "clusterDone", !.ret = NoId]

\* return story.id
Succeed(r) == [r EXCEPT !.pc = "clusterDone", !.ret = r.storyId]

\* synthesis.impacts.map and the insert of the impacts when there are any
ImpactsStage(r) ==
    IF r.synthesis.impacts = None THEN Fail(r)
    ELSE IF Len(r.synthesis.impacts[1]) > 0 THEN [r EXCEPT !.pc = "impacts"]
         ELSE Succeed(r)

\* for (const connection of synthesis.connections), at connection k
ConnectionLoop(r, k) ==
    IF r.synthesis.connections = None THEN Fail(r)
    ELSE IF k > Len(r.synthesis.connections[1]) THEN ImpactsStage(r)
         ELSE [r EXCEPT !.pc = "connSource", !.ki = k,
                        !.sourceId = NoId, !.targetId = NoId]

\* after both lookups, were a name that resolves to no row to throw
AfterLookupsThrowing(r, targetEntity) ==
    IF r.sourceId # NoId /\ targetEntity # None
    THEN [r EXCEPT !.pc = "connUpsert", !.targetId = targetEntity[1].id]
    ELSE Fail(r)

\* if (sourceEntity && targetEntity): the upsert, or the next connection
AfterLookups(r, targetEntity) ==
    IF r.sourceId # NoId /\ targetEntity # None
    THEN [r EXCEPT !.pc = "connUpsert", !.targetId = targetEntity[1].id]
    ELSE ConnectionLoop(r, r.ki + 1)

\* for (const entity of synthesis.entities), at entity e
EntityLoop(r, e) ==
    IF r.synthesis.entities = None THEN Fail(r)
    ELSE IF e > Len(r.synthesis.entities[1]) THEN ConnectionLoop(r, 1)
         ELSE [r EXCEPT !.pc = "entLookup", !.ei = e, !.entityId = NoId]

\* createStoryFromCluster(validClusters[c]) up to its first await
BeginCluster(r, c) ==
    LET r1 == [r EXCEPT !.ci = c, !.answer = "none", !.synthesis = NoSynthesis,
                        !.storyId = NoId, !.ret = NoId, !.ei = 0, !.entityId = NoId,
                        !.ki = 0, !.sourceId = NoId, !.targetId = NoId]
    IN  IF Len(r.clusters[c].articles) < 2 THEN Fail(r1)
        ELSE [r1 EXCEPT !.pc = "synth"]

\* articles.find(a => a.image_url)?.image_url
RECURSIVE heroImage(_)
heroImage(articles) ==
    IF articles = <<>> THEN Null
    ELSE IF Head(articles).image_url # Null THEN Head(articles).image_url
         ELSE heroImage(Tail(articles))

(* ---------------------------- runClusteringJob -------------------------- *)

\* the rows of the articles query: the window, newest first, the limit
RecentRows(since) ==
    FirstRows(OrderByRecency({a \in articleRows : a.published_at >= since}), LimitRows)

\* the .map of getUnassignedArticles on one row
ToArticle(a) ==
    [id |-> a.id, title |-> a.title,
     excerpt |-> IF a.excerpt = None THEN <<>> ELSE a.excerpt[1],
     source |-> IF a.source = Null THEN "Unknown" ELSE a.source,
     published_at |-> a.published_at, image_url |-> a.image_url]

\* the .filter and .map of getUnassignedArticles
Unassigned(rows, assignedIds) ==
    LET notAssigned(a) == a.id \notin assignedIds
        kept == SelectSeq(rows, notAssigned)
    IN  [i \in DOMAIN kept |-> ToArticle(kept[i])]

\* the filter of runClusteringJob, were it to keep every cluster
IsAnyCluster(c) == Len(c.articles) >= 1

IsValidCluster(c) == Len(c.articles) >= 2

\* the return at the end of runClusteringJob
Finished(r) ==
    [r EXCEPT !.pc = "ret",
              !.result = [articlesProcessed |-> Len(r.articles),
                          storiesCreated |-> r.storiesCreated,
                          clusters |-> Len(r.clusters)]]

\* runClusteringJob from the articles getUnassignedArticles returned up to
\* the next await
PlanRun(r, articles) ==
    IF Len(articles) < 2 THEN [r EXCEPT !.pc = "ret", !.result = ZeroResult]
    ELSE The({IF Len(r1.clusters) = 0 THEN Finished(r1) ELSE BeginCluster(r1, 1)
                : r1 \in {[r EXCEPT !.articles = articles,
                                    !.clusters =
                                       SelectSeq(clusterArticles(articles, Threshold),
                                                 IsValidCluster),
                                    !.storiesCreated = 0]}})

\* getUnassignedArticles, were the error of the articles query not looked at
AfterFetchIgnoringError(r, outcome, data) ==
    IF outcome = "reject" THEN [r EXCEPT !.pc = "threw", !.fetched = outcome]
    ELSE [r EXCEPT !.pc = "links", !.fetched = outcome, !.rows = data]

\* getUnassignedArticles after the answer to the articles query
AfterFetch(r, outcome, data) ==
    IF outcome = "reject" THEN [r EXCEPT !.pc = "threw", !.fetched = outcome]
    ELSE IF outcome = "error" THEN PlanRun([r EXCEPT !.fetched = outcome], <<>>)
         ELSE [r EXCEPT !.pc = "links", !.fetched = outcome, !.rows = data]

\* the loop of runClusteringJob, were it to end at the first cluster that
\* failed
AfterClusterStoppingAtFailure(r) ==
    LET r1 == [r EXCEPT !.storiesCreated = IF r.ret # NoId THEN @ + 1 ELSE @,
                        !.attempts = Append(@, r.ret)]
    IN  IF r.ci < Len(r.clusters) /\ r.ret # NoId THEN BeginCluster(r1, r.ci + 1)
        ELSE Finished(r1)

\* the loop of runClusteringJob after createStoryFromCluster returned
AfterCluster(r) ==
    LET r1 == [r EXCEPT !.storiesCreated = IF r.ret # NoId THEN @ + 1 ELSE @,
                        !.attempts = Append(@, r.ret)]
    IN  IF r.ci < Len(r.clusters) THEN BeginCluster(r1, r.ci + 1)
        ELSE Finished(r1)

\* runClusteringJob() up to its first await
StartJob(t) == [IdleRun EXCEPT !.pc = "fetch", !.since = t - HoursBack]

(* -------------------------- the store's contract ------------------------ *)

\* CHECK (type IN (...)) of table entities
EntityTypes == {"person", "company", "location", "commodity", "sector",
                "policy", "event"}

\* the types of ExtractedEntity, which the prompt asks the collaborator for
SynthesisTypes == {"person", "company", "location", "organization", "commodity",
                   "policy", "event"}

\* CHECK (role IN (...)) of table story_entities
EntityRoles == {"primary", "secondary", "mentioned"}

\* the rows of table impact_sectors
Sectors == {"economic", "geopolitical", "political", "social", "technological",
            "supply_chain", "ecological"}

\* CHECK (impact_type IN (...)) of table story_impacts
ImpactTypes == {"positive", "negative", "neutral", "uncertain"}

\* lower case of a character, as ILIKE compares
FoldChar(c) ==
    LET upper == <<"A", "B", "C", "D", "E", "F", "G", "H", "I", "J", "K", "L", "M",
                   "N", "O", "P", "Q", "R", "S", "T", "U", "V", "W", "X", "Y", "Z">>
        lower == <<"a", "b", "c", "d", "e", "f", "g", "h", "i", "j", "k", "l", "m",
                   "n", "o", "p", "q", "r", "s", "t", "u", "v", "w", "x", "y", "z">>
    IN  IF \E i \in DOMAIN upper : upper[i] = c
        THEN lower[CHOOSE i \in DOMAIN upper : upper[i] = c]
        ELSE c

Fold(name) == [i \in DOMAIN name |-> FoldChar(name[i])]

\* s LIKE pattern: % (written * as well in a filter) stands for any run of
\* characters and _ for any one character
RECURSIVE Like(_, _)
Like(s, pattern) ==
    IF pattern = <<>> THEN s = <<>>
    ELSE IF Head(pattern) \in {"%", "*"}
         THEN Like(s, Tail(pattern)) \/ (s # <<>> /\ Like(Tail(s), pattern))
         ELSE /\ s # <<>>
              /\ Head(pattern) = "_" \/ Head(pattern) = Head(s)
              /\ Like(Tail(s), Tail(pattern))

\* .ilike('name', pattern): the pattern is the name as given, not escaped
ILike(name, pattern) == Like(Fold(name), Fold(pattern))

\* .single(): the row when there is exactly one, data null otherwise
Single(rows) ==
    IF Cardinality(rows) = 1 THEN Some(CHOOSE row \in rows : TRUE) ELSE None

\* from('entities').select('id').ilike('name', name).single()
FindEntity(name) == Single({e \in entities : ILike(e.name, name)})

\* connection.relationship.replace(/_/g, ' ')
RelationshipLabel(relationship) ==
    CASE relationship = "related_to" -> "related to"
      [] relationship = "located_in" -> "located in"
      [] relationship = "works_for" -> "works for"
      [] OTHER -> relationship

\* UNIQUE(source_entity_id, target_entity_id, relationship_type)
SameTriple(c, row) ==
    /\ c.source_entity_id = row.source_entity_id
    /\ c.target_entity_id = row.target_entity_id
    /\ c.relationship_type = row.relationship_type

\* the upsert, were a conflicting row left as it is
KeepFirstConnection(rows, row) ==
    IF \E c \in rows : SameTriple(c, row) THEN rows ELSE rows \cup {row}

\* upsert(row, {onConflict: 'source_entity_id,target_entity_id,relationship_type'})
MergeConnection(rows, row) ==
    {c \in rows : ~SameTriple(c, row)} \cup {row}

\* table story_entities, were it without UNIQUE(story_id, entity_id)
LinkAcceptedWithoutUnique(link) == link.role \in EntityRoles

\* upsert(link) without onConflict inserts a row with a new id; table
\* story_entities takes it or raises a violation
LinkAccepted(link) ==
    /\ link.role \in EntityRoles
    /\ \A l \in story_entities :
          ~(l.story_id = link.story_id /\ l.entity_id = link.entity_id)

\* the rows impactInserts, accepted by table story_impacts as a whole or not
ImpactRows(storyId, impacts) ==
    {[story_id |-> storyId, sector_id |-> impacts[i].sector,
      impact_type |-> impacts[i].type, severity |-> impacts[i].severity,
      prediction |-> impacts[i].prediction, confidence |-> impacts[i].confidence]
       : i \in DOMAIN impacts}

ImpactsAccepted(storyId, impacts) ==
    /\ \A i \in DOMAIN impacts :
          /\ impacts[i].sector \in Sectors
          /\ impacts[i].type \in ImpactTypes
          /\ impacts[i].severity \in 1..5
          /\ impacts[i].confidence \in 0..Scale
    /\ \A i, j \in DOMAIN impacts : impacts[i].sector = impacts[j].sector => i = j
    /\ \A row \in story_impacts :
          \A i \in DOMAIN impacts :
             ~(row.story_id = storyId /\ row.sector_id = impacts[i].sector)

(* ------------------------------ the scheduler --------------------------- *)

\* the guard, were it never to find a job running
NoJobRunning(jobType) == FALSE

\* the guard, were there one flag for both job types
AnyJobRunning(jobType) ==
    jobStatus.clustering.isRunning \/ jobStatus.ingestion.isRunning

\* if (jobStatus.<jobType>.isRunning) at the head of a wrapper
AlreadyRunning(jobType) == jobStatus[jobType].isRunning

\* what an async function that returns no value resolves with
Undefined == [undefined |-> TRUE]

\* isRunning = true; lastRun = new Date()
StartStatus(status, t) == [status EXCEPT !.isRunning = TRUE, !.lastRun = Some(t)]

\* the wrapper's exit, were there no finally block
FinishStatusWithoutFinally(status, lastResult) ==
    [status EXCEPT !.lastResult = Some(lastResult)]

\* lastResult = ...; finally isRunning = false
FinishStatus(status, lastResult) ==
    [status EXCEPT !.lastResult = Some(lastResult), !.isRunning = FALSE]

\* { error: String(error) }
ErrorRecord == [error |-> "Error"]

\* the bodies POST /api/ingest/all can answer with
IngestBodies == {[success |-> TRUE]}

\* runClusteringJobWrapper, called by the cron task, the start-up timer or
\* triggerClustering, up to its await
TriggerClustering(p) ==
    /\ Quiet
    /\ run[p].pc = "idle"
    /\ IF AlreadyRunning("clustering")
       THEN /\ run' = [run EXCEPT ![p].pc = "skipped"]
            /\ UNCHANGED jobStatus
       ELSE /\ jobStatus' = [jobStatus EXCEPT !.clustering = StartStatus(@, now)]
            /\ run' = [run EXCEPT ![p] = StartJob(now)]
    /\ reply' = [reply EXCEPT ![p] = None]
    /\ UNCHANGED <<now, ingest, tables, faults, alone, aside>>

\* POST /stories/cluster up to its await
PostCluster(p) ==
    /\ Quiet
    /\ run[p].pc = "idle"
    /\ run' = [run EXCEPT ![p] = StartJob(now)]
    /\ reply' = [reply EXCEPT ![p] = None]
    /\ UNCHANGED <<jobStatus, now, ingest, tables, faults, alone, aside>>

\* the answer to the articles query of getUnassignedArticles
FetchArticles(p) ==
    /\ Quiet
    /\ run[p].pc = "fetch"
    /\ \E outcome \in {"ok", "error", "reject"} :
          /\ outcome # "ok" => CanFault
          /\ faults' = IF outcome = "ok" THEN faults ELSE faults + 1
          /\ run' = [run EXCEPT ![p] = AfterFetch(@, outcome, RecentRows(@.since))]
    /\ UNCHANGED <<jobStatus, now, ingest, reply, tables, alone, aside>>

\* the answer to the story_articles query of getUnassignedArticles
FetchLinks(p) ==
    /\ Quiet
    /\ run[p].pc = "links"
    /\ \E ok \in BOOLEAN :
          /\ ~ok => CanFault
          /\ faults' = IF ok THEN faults ELSE faults + 1
          /\ LET articleIds == {run[p].rows[i].id : i \in DOMAIN run[p].rows}
                 existingLinks == {l \in story_articles : l.article_id \in articleIds}
                 assignedIds == IF ok THEN {l.article_id : l \in existingLinks} ELSE {}
             IN  run' = [run EXCEPT ![p] =
                           PlanRun([@ EXCEPT !.rows = <<>>,
                                             !.dbErrors = IF ok THEN @ ELSE @ + 1],
                                   Unassigned(@.rows, assignedIds))]
    /\ UNCHANGED <<jobStatus, now, ingest, reply, tables, alone, aside>>

AnswerName(response) ==
    IF response.kind # "text" THEN response.kind
    ELSE IF response.body = Garbage THEN "garbage"
    ELSE IF response.body = NoSectionsPayload THEN "nosections"
    ELSE IF response.body = NoEntitiesPayload THEN "noentities"
    ELSE "full"

\* the collaborator answers the call of synthesizeArticles
Synthesize(p) ==
    /\ Quiet
    /\ run[p].pc = "synth"
    /\ \E response \in answers :
          /\ AnswerName(response) # "full" => CanFault
          /\ faults' = IF AnswerName(response) = "full" THEN faults ELSE faults + 1
          /\ run' = [run EXCEPT ![p] =
                        [@ EXCEPT !.pc = "insertStory",
                                  !.answer = AnswerName(response),
                                  !.synthCalls = @ + 1,
                                  !.synthesis =
                                     synthesizeArticles(run[p].clusters[run[p].ci].articles,
                                                        response)]]
    /\ UNCHANGED <<jobStatus, now, ingest, reply, tables, alone, aside>>

\* the collaborator never answers the call of synthesizeArticles
SynthesisHangs(p) ==
    /\ Quiet
    /\ run[p].pc = "synth"
    /\ CanFault
    /\ Fault
    /\ run' = [run EXCEPT ![p].pc = "hung", ![p].answer = "never",
                          ![p].synthCalls = @ + 1]
    /\ UNCHANGED <<jobStatus, now, ingest, reply, tables, alone, aside>>

\* the answer to the insert into stories
InsertStory(p) ==
    /\ Quiet
    /\ run[p].pc = "insertStory"
    /\ LET full == Cardinality(stories) >= MaxStories
           r == run[p]
           articles == r.clusters[r.ci].articles
           story == [id |-> Cardinality(stories) + 1,
                     title |-> r.synthesis.title,
                     summary |-> r.synthesis.summary,
                     synthesis |-> r.synthesis.sections,
                     hero_image_url |-> heroImage(articles),
                     status |-> "published",
                     published_at |-> now]
       IN  \E ok \in BOOLEAN :
              /\ ok => ~full
              /\ ~ok => (full \/ CanFault)
              /\ faults' = IF ok \/ full THEN faults ELSE faults + 1
              /\ IF ok
                 THEN /\ stories' = stories \cup {story}
                      /\ run' = [run EXCEPT ![p].pc = "insertLinks",
                                            ![p].storyId = story.id,
                                            ![p].made = Append(@, story.id),
                                            ![p].writes = @ + 1]
                 ELSE /\ stories' = stories
                      /\ run' = [run EXCEPT ![p] =
                                   Fail([@ EXCEPT !.dbErrors = @ + 1])]
    /\ UNCHANGED <<jobStatus, now, ingest, reply, articleRows, story_articles, entities,
                   story_entities, entity_connections, story_impacts, alone, aside>>

\* the answer to the insert into story_articles, up to the next await
InsertLinks(p) ==
    /\ Quiet
    /\ run[p].pc = "insertLinks"
    /\ LET r == run[p]
           articles == r.clusters[r.ci].articles
           articleLinks == {[story_id |-> r.storyId, article_id |-> articles[i].id,
                             relevance_score |-> r.clusters[r.ci].similarity]
                               : i \in DOMAIN articles}
       IN  \E ok \in BOOLEAN :
              /\ ~ok => CanFault
              /\ faults' = IF ok THEN faults ELSE faults + 1
              /\ story_articles' = IF ok THEN story_articles \cup articleLinks
                                   ELSE story_articles
              /\ run' = [run EXCEPT ![p] =
                           EntityLoop([@ EXCEPT !.writes = IF ok THEN @ + 1 ELSE @,
                                     !.dbErrors = IF ok THEN @ ELSE @ + 1], 1)]
    /\ UNCHANGED <<jobStatus, now, ingest, reply, articleRows, stories, entities,
                   story_entities, entity_connections, story_impacts, alone, aside>>

\* the answer to the lookup of the entity by name
EntityLookup(p) ==
    /\ Quiet
    /\ run[p].pc = "entLookup"
    /\ LET r == run[p]
           entity == r.synthesis.entities[1][r.ei]
       IN  \E ok \in BOOLEAN :
              /\ ~ok => CanFault
              /\ faults' = IF ok THEN faults ELSE faults + 1
              /\ LET existingEntity == IF ok THEN FindEntity(entity.name) ELSE None
                 IN  run' = [run EXCEPT ![p] =
                               IF existingEntity # None
                               THEN [@ EXCEPT !.pc = "entLink",
                                              !.entityId = existingEntity[1].id]
                               ELSE [@ EXCEPT !.pc = "entInsert",
                                              !.dbErrors = IF ok THEN @ ELSE @ + 1]]
    /\ UNCHANGED <<jobStatus, now, ingest, reply, tables, alone, aside>>

\* the answer to the insert into entities
EntityInsert(p) ==
    /\ Quiet
    /\ run[p].pc = "entInsert"
    /\ LET r == run[p]
           entity == r.synthesis.entities[1][r.ei]
           accepted == /\ entity.type \in EntityTypes
                       /\ \A e \in entities :
                             ~(e.name = entity.name /\ e.type = entity.type)
           newEntity == [id |-> Cardinality(entities) + 1, name |-> entity.name,
                         type |-> entity.type]
       IN  \E ok \in BOOLEAN :
              /\ ok => accepted
              /\ ~ok => (~accepted \/ CanFault)
              /\ faults' = IF ok \/ ~accepted THEN faults ELSE faults + 1
              /\ IF ok
                 THEN /\ entities' = entities \cup {newEntity}
                      /\ run' = [run EXCEPT ![p].pc = "entLink",
                                            ![p].entityId = newEntity.id,
                                            ![p].writes = @ + 1]
                 ELSE /\ entities' = entities
                      /\ run' = [run EXCEPT ![p] =
                                   EntityLoop([@ EXCEPT !.dbErrors = @ + 1], r.ei + 1)]
    /\ UNCHANGED <<jobStatus, now, ingest, reply, articleRows, stories, story_articles,
                   story_entities, entity_connections, story_impacts, alone, aside>>

\* the answer to the upsert into story_entities
EntityLink(p) ==
    /\ Quiet
    /\ run[p].pc = "entLink"
    /\ LET r == run[p]
           entity == r.synthesis.entities[1][r.ei]
           link == [story_id |-> r.storyId, entity_id |-> r.entityId,
                    role |-> entity.role, context |-> entity.context]
           accepted == LinkAccepted(link)
       IN  \E ok \in BOOLEAN :
              /\ ok => accepted
              /\ ~ok => (~accepted \/ CanFault)
              /\ faults' = IF ok \/ ~accepted THEN faults ELSE faults + 1
              /\ story_entities' = IF ok THEN story_entities \cup {link}
                                   ELSE story_entities
              /\ run' = [run EXCEPT ![p] =
                           EntityLoop([@ EXCEPT !.writes = IF ok THEN @ + 1 ELSE @,
                                     !.dbErrors = IF ok THEN @ ELSE @ + 1],
                                      r.ei + 1)]
    /\ UNCHANGED <<jobStatus, now, ingest, reply, articleRows, stories, story_articles,
                   entities, entity_connections, story_impacts, alone, aside>>

\* the answer to the lookup of connection.source
ConnectionSource(p) ==
    /\ Quiet
    /\ run[p].pc = "connSource"
    /\ LET r == run[p]
           connection == r.synthesis.connections[1][r.ki]
       IN  \E ok \in BOOLEAN :
              /\ ~ok => CanFault
              /\ faults' = IF ok THEN faults ELSE faults + 1
              /\ LET sourceEntity == IF ok THEN FindEntity(connection.source) ELSE None
                 IN  run' = [run EXCEPT ![p].pc = "connTarget",
                                        ![p].dbErrors = IF ok THEN @ ELSE @ + 1,
                                        ![p].sourceId = IF sourceEntity = None THEN NoId
                                                        ELSE sourceEntity[1].id]
    /\ UNCHANGED <<jobStatus, now, ingest, reply, tables, alone, aside>>

\* the answer to the lookup of connection.target
ConnectionTarget(p) ==
    /\ Quiet
    /\ run[p].pc = "connTarget"
    /\ LET r == run[p]
           connection == r.synthesis.connections[1][r.ki]
       IN  \E ok \in BOOLEAN :
              /\ ~ok => CanFault
              /\ faults' = IF ok THEN faults ELSE faults + 1
              /\ LET targetEntity == IF ok THEN FindEntity(connection.target) ELSE None
                 IN  run' = [run EXCEPT ![p] =
                               AfterLookups(
                                  [@ EXCEPT !.dbErrors = IF ok THEN @ ELSE @ + 1],
                                  targetEntity)]
    /\ UNCHANGED <<jobStatus, now, ingest, reply, tables, alone, aside>>

\* the answer to the upsert into entity_connections
ConnectionUpsert(p) ==
    /\ Quiet
    /\ run[p].pc = "connUpsert"
    /\ LET r == run[p]
           connection == r.synthesis.connections[1][r.ki]
           row == [source_entity_id |-> r.sourceId,
                   target_entity_id |-> r.targetId,
                   relationship_type |-> connection.relationship,
                   relationship_label |-> RelationshipLabel(connection.relationship),
                   strength |-> connection.strength,
                   evidence |-> connection.evidence,
                   story_id |-> r.storyId]
           accepted == connection.strength \in 0..Scale
       IN  \E ok \in BOOLEAN :
              /\ ok => accepted
              /\ ~ok => (~accepted \/ CanFault)
              /\ faults' = IF ok \/ ~accepted THEN faults ELSE faults + 1
              /\ entity_connections' =
                    IF ok THEN MergeConnection(entity_connections, row)
                    ELSE entity_connections
              /\ run' = [run EXCEPT ![p] =
                           ConnectionLoop([@ EXCEPT !.writes = IF ok THEN @ + 1 ELSE @,
                                     !.merged = IF ok THEN Append(@, row) ELSE @,
                                     !.dbErrors = IF ok THEN @ ELSE @ + 1],
                                          r.ki + 1)]
    /\ UNCHANGED <<jobStatus, now, ingest, reply, articleRows, stories, story_articles,
                   entities, story_entities, story_impacts, alone, aside>>

\* the answer to the insert into story_impacts
InsertImpacts(p) ==
    /\ Quiet
    /\ run[p].pc = "impacts"
    /\ LET r == run[p]
           impacts == r.synthesis.impacts[1]
           accepted == ImpactsAccepted(r.storyId, impacts)
       IN  \E ok \in BOOLEAN :
              /\ ok => accepted
              /\ ~ok => (~accepted \/ CanFault)
              /\ faults' = IF ok \/ ~accepted THEN faults ELSE faults + 1
              /\ story_impacts' = IF ok THEN story_impacts \cup ImpactRows(r.storyId, impacts)
                                  ELSE story_impacts
              /\ run' = [run EXCEPT ![p] =
                           Succeed([@ EXCEPT !.writes = IF ok THEN @ + 1 ELSE @,
                                     !.dbErrors = IF ok THEN @ ELSE @ + 1])]
    /\ UNCHANGED <<jobStatus, now, ingest, reply, articleRows, stories, story_articles,
                   entities, story_entities, entity_connections, alone, aside>>

\* createStoryFromCluster returned: the loop of runClusteringJob goes on
ClusterDone(p) ==
    /\ run[p].pc = "clusterDone"
    /\ run' = [run EXCEPT ![p] = AfterCluster(@)]
    /\ UNCHANGED <<jobStatus, now, ingest, reply, tables, faults, alone, aside>>

\* runClusteringJob returned: the code after the await of its caller
Returned(p) ==
    /\ run[p].pc = "ret"
    /\ run' = [run EXCEPT ![p] = IdleRun]
    /\ IF p \in ClusterWrappers
       THEN /\ jobStatus' = [jobStatus EXCEPT
                               !.clustering = FinishStatus(@, run[p].result)]
            /\ reply' = [reply EXCEPT ![p] = Some(Undefined)]
       ELSE /\ reply' = [reply EXCEPT ![p] =
                           Some([success |-> TRUE, result |-> run[p].result])]
            /\ UNCHANGED jobStatus
    /\ UNCHANGED <<now, ingest, tables, faults, alone, aside>>

\* runClusteringJob threw: the catch block of its caller
Threw(p) ==
    /\ run[p].pc = "threw"
    /\ run' = [run EXCEPT ![p] = IdleRun]
    /\ IF p \in ClusterWrappers
       THEN /\ jobStatus' = [jobStatus EXCEPT
                               !.clustering = FinishStatus(@, ErrorRecord)]
            /\ reply' = [reply EXCEPT ![p] = Some(Undefined)]
       ELSE /\ reply' = [reply EXCEPT ![p] =
                           Some([success |-> FALSE, error |-> "Error"])]
            /\ UNCHANGED jobStatus
    /\ UNCHANGED <<now, ingest, tables, faults, alone, aside>>

\* runClusteringJobWrapper returned at once: the job was already running
SkippedClustering(p) ==
    /\ run[p].pc = "skipped"
    /\ run' = [run EXCEPT ![p] = IdleRun]
    /\ reply' = [reply EXCEPT ![p] = Some(Undefined)]
    /\ UNCHANGED <<jobStatus, now, ingest, tables, faults, alone, aside>>

\* runIngestionJob returned at once: the job was already running
SkippedIngestion(p) ==
    /\ ingest[p] = "skipped"
    /\ ingest' = [ingest EXCEPT ![p] = "idle"]
    /\ UNCHANGED <<jobStatus, now, run, reply, tables, faults, alone, aside>>

\* runIngestionJob up to its first await
TriggerIngestion(p) ==
    /\ Quiet
    /\ ingest[p] = "idle"
    /\ IF AlreadyRunning("ingestion")
       THEN /\ ingest' = [ingest EXCEPT ![p] = "skipped"]
            /\ UNCHANGED jobStatus
       ELSE /\ jobStatus' = [jobStatus EXCEPT !.ingestion = StartStatus(@, now)]
            /\ ingest' = [ingest EXCEPT ![p] = "fetch"]
    /\ UNCHANGED <<now, run, reply, tables, faults, alone, aside>>

\* the fetch of /api/ingest/all settles
IngestResponse(p) ==
    /\ Quiet
    /\ ingest[p] = "fetch"
    /\ \E ok \in BOOLEAN :
          /\ ~ok => CanFault
          /\ faults' = IF ok THEN faults ELSE faults + 1
          /\ IF ok
             THEN /\ ingest' = [ingest EXCEPT ![p] = "json"]
                  /\ UNCHANGED jobStatus
             ELSE /\ ingest' = [ingest EXCEPT ![p] = "idle"]
                  /\ jobStatus' = [jobStatus EXCEPT
                                     !.ingestion = FinishStatus(@, ErrorRecord)]
    /\ UNCHANGED <<now, run, reply, tables, alone, aside>>

\* response.json() settles
IngestJson(p) ==
    /\ Quiet
    /\ ingest[p] = "json"
    /\ \/ \E result \in IngestBodies :
             /\ jobStatus' = [jobStatus EXCEPT !.ingestion = FinishStatus(@, result)]
             /\ ingest' = [ingest EXCEPT ![p] = "idle"]
             /\ UNCHANGED faults
       \/ /\ CanFault
          /\ Fault
          /\ jobStatus' = [jobStatus EXCEPT !.ingestion = FinishStatus(@, ErrorRecord)]
          /\ ingest' = [ingest EXCEPT ![p] = "idle"]
    /\ UNCHANGED <<now, run, reply, tables, alone, aside>>

\* time passes
Tick ==
    /\ Quiet
    /\ now < StartTime + MaxClock
    /\ now' = now + 1
    /\ UNCHANGED <<jobStatus, run, ingest, reply, tables, faults, alone, aside>>

(* ----------------------------- POST /process ---------------------------- *)

\* what the analysis of an article can name
AnalysisEntities ==
    {[name |-> Names.opec, type |-> "company"],
     [name |-> Names.opec, type |-> "person"],
     [name |-> Names.opecLower, type |-> "company"]}

\* for (const entity of analysis.entities) reaches an entity.  The update of
\* the article before the loop, the upsert into article_entities after the
\* entity is resolved and the insert into job_logs write columns and tables
\* the model does not hold.
ProcessEntity ==
    /\ Quiet
    /\ analysis.pc = "idle"
    /\ analysis.served < MaxAnalysed
    /\ \E entity \in AnalysisEntities :
          analysis' = [analysis EXCEPT !.pc = "lookup", !.entity = Some(entity)]
    /\ UNCHANGED <<jobStatus, now, run, ingest, reply, tables, faults, alone, answers,
                   job_logs>>

\* the answer to .eq('name', entity.name).eq('type', entity.type).single()
ProcessLookup ==
    /\ Quiet
    /\ analysis.pc = "lookup"
    /\ LET entity == analysis.entity[1]
       IN  \E ok \in BOOLEAN :
              /\ ~ok => CanFault
              /\ faults' = IF ok THEN faults ELSE faults + 1
              /\ LET existingEntity ==
                        IF ok THEN Single({e \in entities : /\ e.name = entity.name
                                                            /\ e.type = entity.type})
                        ELSE None
                 IN  analysis' = IF existingEntity # None
                                 THEN [pc |-> "idle", entity |-> None,
                                       served |-> analysis.served + 1]
                                 ELSE [analysis EXCEPT !.pc = "insert"]
    /\ UNCHANGED <<jobStatus, now, run, ingest, reply, tables, alone, answers, job_logs>>

\* the answer to the insert into entities
ProcessInsert ==
    /\ Quiet
    /\ analysis.pc = "insert"
    /\ LET entity == analysis.entity[1]
           accepted == /\ entity.type \in EntityTypes
                       /\ \A e \in entities :
                             ~(e.name = entity.name /\ e.type = entity.type)
           newEntity == [id |-> Cardinality(entities) + 1, name |-> entity.name,
                         type |-> entity.type]
       IN  \E ok \in BOOLEAN :
              /\ ok => accepted
              /\ ~ok => (~accepted \/ CanFault)
              /\ faults' = IF ok \/ ~accepted THEN faults ELSE faults + 1
              /\ entities' = IF ok THEN entities \cup {newEntity} ELSE entities
              /\ analysis' = [pc |-> "idle", entity |-> None,
                              served |-> analysis.served + 1]
    /\ UNCHANGED <<jobStatus, now, run, ingest, reply, articleRows, stories,
                   story_articles, story_entities, entity_connections, story_impacts,
                   alone, answers, job_logs>>

\* the answer to the insert into job_logs after the loops; the handler then
\* returns.  message and items_processed count articles, which the model of
\* this handler does not hold.
ProcessLog ==
    /\ Quiet
    /\ analysis.pc = "idle"
    /\ \E ok \in BOOLEAN :
          /\ ~ok => CanFault
          /\ faults' = IF ok THEN faults ELSE faults + 1
          /\ job_logs' = IF ok THEN job_logs \cup {[job_type |-> "process",
                                                     status |-> "completed",
                                                     completed_at |-> now]}
                         ELSE job_logs
    /\ analysis' = [analysis EXCEPT !.pc = "done"]
    /\ UNCHANGED <<jobStatus, now, run, ingest, reply, tables, alone, answers>>

\* the steps of one activation of runClusteringJob
Body(p) ==
    \/ FetchArticles(p)
    \/ FetchLinks(p)
    \/ Synthesize(p)
    \/ SynthesisHangs(p)
    \/ InsertStory(p)
    \/ InsertLinks(p)
    \/ EntityLookup(p)
    \/ EntityInsert(p)
    \/ EntityLink(p)
    \/ ConnectionSource(p)
    \/ ConnectionTarget(p)
    \/ ConnectionUpsert(p)
    \/ InsertImpacts(p)
    \/ ClusterDone(p)
    \/ Returned(p)
    \/ Threw(p)

\* The pipeline: the scheduled clustering job and a request to
\* POST /stories/cluster, over the whole corpus.
Next ==
    \/ TriggerClustering("cron")
    \/ PostCluster("route")
    \/ Body("cron")
    \/ Body("route")

Spec == Init /\ [][Next]_vars

\* The scheduler: both callers of either job, while the clock runs, over a
\* corpus with one pair of similar articles.
SchedulerCorpus == {a \in Corpus : a.id \in {1, 2, 5}}

InitScheduler ==
    /\ JobInit
    /\ articleRows = SchedulerCorpus
    /\ answers = Responses
    /\ input = <<>>
    /\ threshold = Threshold
    /\ output = None
    /\ again = None

NextScheduler ==
    \/ \E p \in ClusterWrappers :
          \/ TriggerClustering(p)
          \/ SkippedClustering(p)
          \/ Body(p)
    \/ \E p \in IngestProcs :
          \/ TriggerIngestion(p)
          \/ SkippedIngestion(p)
          \/ IngestResponse(p)
          \/ IngestJson(p)
    \/ Tick

SpecScheduler == InitScheduler /\ [][NextScheduler]_vars

\* The scheduled clustering job alone, under the scheduling of the event
\* loop: a continuation runs once the answer it awaits has arrived.  That
\* the collaborator answers at all is no part of it.
NextFair ==
    \/ TriggerClustering("cron")
    \/ Body("cron")

FairSpec ==
    /\ InitScheduler
    /\ [][NextFair]_vars
    /\ WF_vars(Body("cron"))

\* A batch of five: A (1) and B (2) tell the same event, C (3), D (4) and
\* E (5) share no word with any other article.
ScenarioCorpus ==
    {[id |-> 1, title |-> <<"Oil", "prices", "rise">>, excerpt |-> Some(<<"OPEC">>),
      source |-> "AP", published_at |-> 14, image_url |-> Null],
     [id |-> 2, title |-> <<"oil,", "prices", "rise">>, excerpt |-> Some(<<"The", "U.S.">>),
      source |-> "Reuters", published_at |-> 13, image_url |-> "img2"],
     [id |-> 3, title |-> <<"storm", "coast">>, excerpt |-> None,
      source |-> "BBC", published_at |-> 12, image_url |-> Null],
     [id |-> 4, title |-> <<"bank", "rates">>, excerpt |-> Some(<<"Up">>),
      source |-> "AP", published_at |-> 11, image_url |-> Null],
     [id |-> 5, title |-> <<"vote">>, excerpt |-> Some(<<"vote">>),
      source |-> Null, published_at |-> 10, image_url |-> Null]}

InitScenario ==
    /\ JobInit
    /\ articleRows = ScenarioCorpus
    /\ answers = Responses
    /\ input = <<>>
    /\ threshold = Threshold
    /\ output = None
    /\ again = None

\* the scheduled clustering job on the batch of five
SpecScenario == InitScenario /\ [][NextFair]_vars

\* The knowledge graph: the scheduled clustering job over the whole corpus,
\* the collaborator answering with payloads that name entities, connections
\* and impacts, while POST /process writes entities of its own.
OilGraph ==
    [FullPayload EXCEPT
       !.entities = Some(<<[name |-> Names.opec, type |-> "company",
                            role |-> "primary", context |-> "cuts"],
                           [name |-> Names.opecLower, type |-> "company",
                            role |-> "mentioned", context |-> "quota"],
                           [name |-> Names.bigOil, type |-> "company",
                            role |-> "secondary", context |-> "supply"]>>),
       !.connections = Some(<<[source |-> Names.shell, target |-> Names.opec,
                               relationship |-> "related_to", evidence |-> "rumour",
                               strength |-> 400],
                              [source |-> Names.opec, target |-> Names.bigOil,
                               relationship |-> "related_to", evidence |-> "cuts",
                               strength |-> 800],
                              [source |-> Names.opecLower, target |-> Names.bigOil,
                               relationship |-> "related_to", evidence |-> "quota",
                               strength |-> 500]>>)]

SnakeGraph ==
    [FullPayload EXCEPT
       !.title = <<"Majors">>,
       !.entities = Some(<<[name |-> Names.bigOilSnake, type |-> "company",
                            role |-> "primary", context |-> "majors"],
                           [name |-> Names.shell, type |-> "organization",
                            role |-> "secondary", context |-> "rival"]>>),
       !.connections = Some(<<>>),
       !.impacts = Some(<<[sector |-> "economic", type |-> "negative", severity |-> 3,
                           prediction |-> "prices", confidence |-> 700],
                          [sector |-> "economic", type |-> "positive", severity |-> 2,
                           prediction |-> "profits", confidence |-> 600]>>)]

GraphResponses ==
    {[kind |-> "text", fenced |-> FALSE, body |-> OilGraph],
     [kind |-> "text", fenced |-> FALSE, body |-> SnakeGraph]}

InitGraph ==
    /\ JobInit
    /\ articleRows = Corpus
    /\ answers = GraphResponses
    /\ input = <<>>
    /\ threshold = Threshold
    /\ output = None
    /\ again = None

NextGraph ==
    \/ TriggerClustering("cron")
    \/ Body("cron")
    \/ ProcessEntity
    \/ ProcessLookup
    \/ ProcessInsert
    \/ ProcessLog

SpecGraph == InitGraph /\ [][NextGraph]_vars

\* clusterArticles alone, on every batch of at most MaxBatch articles
TextChoices ==
    {[title |-> <<"Oil", "prices", "rise">>, excerpt |-> <<"OPEC">>],
     [title |-> <<"oil,", "prices", "rise">>, excerpt |-> <<"The", "U.S.">>],
     [title |-> <<"storm", "coast">>, excerpt |-> <<>>],
     [title |-> <<"The">>, excerpt |-> <<"Up">>],
     [title |-> <<"Oil", "storm">>, excerpt |-> <<"coast", "prices">>],
     [title |-> <<"Oil", "prices">>, excerpt |-> <<"storm">>]}

ThresholdChoices == {0, Threshold, Scale \div 2, Scale}

InitCluster ==
    /\ JobInit
    /\ articleRows = {}
    /\ \E n \in 0..MaxBatch :
          \E texts \in [1..n -> TextChoices], times \in [1..n -> 1..MaxTime] :
             input = [i \in 1..n |->
                        [id |-> i, title |-> texts[i].title,
                         excerpt |-> texts[i].excerpt, published_at |-> times[i]]]
    /\ threshold \in ThresholdChoices
    /\ output = None
    /\ again = None
    /\ answers = {}

ClusterBatch ==
    /\ output = None
    /\ output' = Some(clusterArticles(input, threshold))
    /\ UNCHANGED <<jobStatus, now, run, ingest, reply, tables, faults,
                   input, threshold, again, aside>>

\* a second call on the same array: the first one sorted a copy of it
ClusterAgain ==
    /\ output # None
    /\ again = None
    /\ again' = Some(clusterArticles(input, threshold))
    /\ UNCHANGED <<jobStatus, now, run, ingest, reply, tables, faults,
                   input, threshold, output, aside>>

NextCluster == ClusterBatch \/ ClusterAgain

SpecCluster == InitCluster /\ [][NextCluster]_vars

(* ------------------------------- claims --------------------------------- *)

\* an execution of the job body is in progress for caller p
InBody(p) == run[p].pc \notin {"idle", "skipped"}

Ingesting(p) == ingest[p] \in {"fetch", "json"}

\* the member articles of the cluster createStoryFromCluster is working on
Members(r) == r.clusters[r.ci].articles

FailedAnswers == {"reject", "empty", "garbage"}

\* the Story row with this id is the basic synthesis of these articles
IsFallbackStory(id, members) ==
    \E s \in stories :
       /\ s.id = id
       /\ s.title = members[1].title
       /\ s.synthesis # None
       /\ Len(s.synthesis[1]) = 1
       /\ Len(s.synthesis[1][1].content) = Len(members)
       /\ \A i \in DOMAIN members :
             s.synthesis[1][1].content[i] = <<members[i].excerpt, members[i].source>>

HasGraphRows(id) ==
    \/ \E l \in story_entities : l.story_id = id
    \/ \E c \in entity_connections : c.story_id = id
    \/ \E i \in story_impacts : i.story_id = id

\* C1: for each job type at most one execution of the job body is in
\* progress at any time, whoever triggered it.
C1_SingleFlight ==
    /\ \A p, q \in ClusterProcs : InBody(p) /\ InBody(q) => p = q
    /\ \A p, q \in IngestProcs : Ingesting(p) /\ Ingesting(q) => p = q

\* C2: every article is linked through story_articles to at most one Story.
C2_OneStoryPerArticle ==
    \A l, m \in story_articles : l.article_id = m.article_id => l.story_id = m.story_id

\* C3: on every exit path of an admitted run, the body returning or
\* throwing, the wrapper sets isRunning to false and records the body's
\* result or an error record in lastResult; isRunning is true only while an
\* admitted run is in progress.
C3_FlagReleased ==
    /\ [](/\ jobStatus.clustering.isRunning => \E p \in ClusterWrappers : InBody(p)
          /\ jobStatus.ingestion.isRunning => \E p \in IngestProcs : Ingesting(p))
    /\ [][/\ \A p \in ClusterWrappers :
                InBody(p) /\ ~InBody(p)' =>
                   /\ run[p].pc \in {"ret", "threw"}
                   /\ jobStatus'.clustering.isRunning = FALSE
                   /\ jobStatus'.clustering.lastResult =
                         IF run[p].pc = "ret" THEN Some(run[p].result)
                         ELSE Some(ErrorRecord)
          /\ \A p \in IngestProcs :
                Ingesting(p) /\ ~Ingesting(p)' =>
                   /\ jobStatus'.ingestion.isRunning = FALSE
                   /\ jobStatus'.ingestion.lastResult \in
                         {Some(b) : b \in IngestBodies \cup {ErrorRecord}}]_vars

\* a clustering run threw and the flag is clear with the error recorded
C3_Witness ==
    /\ jobStatus.clustering.lastResult = Some(ErrorRecord)
    /\ jobStatus.clustering.isRunning = FALSE
    /\ jobStatus.ingestion.lastResult = Some([success |-> TRUE])
    /\ jobStatus.ingestion.isRunning = FALSE

\* C4: every clustering run the guard admitted eventually finishes and
\* clears the running flag, also when the collaborator never answers.
C4_RunFinishes ==
    jobStatus.clustering.isRunning ~> ~jobStatus.clustering.isRunning

\* C5: when synthesis fails (the call errors, has no content, or its text
\* does not parse) the story insert is made from the basic synthesis, and
\* once that insert has succeeded the materialization returns the id of a
\* Story titled like the first member article, with one section holding
\* every member's excerpt tagged with its source in cluster order, and with
\* no entities, connections or impacts.
C5_FallbackStory ==
    \A p \in ClusterProcs :
       LET r == run[p]
       IN  r.answer \in FailedAnswers =>
              /\ r.pc \in {"insertStory", "insertLinks", "clusterDone", "ret"}
              /\ r.synthesis = FallbackSynthesis(Members(r))
              /\ r.storyId = NoId =>
                    r.pc = "insertStory" \/ r.ret = NoId
              /\ r.storyId # NoId =>
                    /\ IsFallbackStory(r.storyId, Members(r))
                    /\ ~HasGraphRows(r.storyId)
                    /\ r.pc \in {"clusterDone", "ret"} => r.ret = r.storyId

C5_Witness ==
    \E p \in ClusterProcs :
       /\ run[p].pc = "clusterDone"
       /\ run[p].answer \in FailedAnswers
       /\ run[p].ret # NoId
       /\ Len(Members(run[p])) = 2

\* C6: a response that parses but does not match the schema is treated as a
\* synthesis failure: the cluster is materialized from the basic synthesis.
C6_InvalidIsFailure ==
    \A p \in ClusterProcs :
       LET r == run[p]
       IN  r.answer \in {"nosections", "noentities"} /\ r.storyId # NoId =>
              /\ IsFallbackStory(r.storyId, Members(r))
              /\ r.pc = "clusterDone" => r.ret = r.storyId

\* C7: if createStoryFromCluster returns null, no Story row of that cluster
\* exists and none of its articles has a story link from it.
C7_FailedLeavesNothing ==
    \A p \in ClusterProcs :
       LET r == run[p]
       IN  r.pc = "clusterDone" /\ r.ret = NoId =>
              /\ r.storyId = NoId
              /\ \A l \in story_articles : l.story_id # r.storyId

\* the number of attempts that returned a story id
Created(attempts) == Cardinality({i \in DOMAIN attempts : attempts[i] # NoId})

\* C8: a failed materialization does not make runClusteringJob throw; every
\* qualifying cluster is attempted once, in order, and storiesCreated is the
\* number of attempts that returned a story id.
C8_RunSurvivesFailure ==
    \A p \in ClusterProcs :
       LET r == run[p]
       IN  /\ r.pc = "threw" => r.fetched = "reject" /\ r.attempts = <<>>
           /\ r.pc \notin {"idle", "skipped", "fetch", "links", "threw", "ret"} =>
                 /\ r.ci \in DOMAIN r.clusters
                 /\ Len(r.attempts) = r.ci - 1
                 /\ r.storiesCreated = Created(r.attempts)
           /\ r.pc = "ret" =>
                 /\ Len(r.attempts) = Len(r.clusters)
                 /\ r.result.storiesCreated = Created(r.attempts)
                 /\ r.result.clusters = Len(r.clusters)

\* the first cluster failed and the second one was still materialized
C8_Witness ==
    \E p \in ClusterProcs :
       /\ run[p].pc = "ret"
       /\ Len(run[p].attempts) = 2
       /\ run[p].attempts[1] = NoId
       /\ run[p].attempts[2] # NoId
       /\ run[p].result.storiesCreated = 1

Places(clusters, id) ==
    {<<i, j>> \in (DOMAIN clusters) \X (1..MaxBatch + 1) :
        j \in DOMAIN clusters[i].articles /\ clusters[i].articles[j].id = id}

\* C10: clusterArticles partitions its input: every article is in exactly
\* one returned cluster, the clusters hold nothing else, and none is empty.
C10_Partition ==
    output # None =>
       LET clusters == output[1]
       IN  /\ \A i \in DOMAIN clusters : Len(clusters[i].articles) >= 1
           /\ \A k \in DOMAIN input :
                 Cardinality(Places(clusters, input[k].id)) = 1
           /\ \A i \in DOMAIN clusters :
                 \A j \in DOMAIN clusters[i].articles :
                    \E k \in DOMAIN input : clusters[i].articles[j] = input[k]

\* a batch of three came back as one pair and one singleton
C10_Witness ==
    /\ output # None
    /\ Len(input) = 3
    /\ Len(output[1]) = 2
    /\ \E i \in DOMAIN output[1] : Len(output[1][i].articles) = 2

\* article x is visited before article y: newer first, a tie in input order
\* (the id of an article of a batch handed to clusterArticles alone is its
\* place in the batch)
VisitedBefore(x, y) ==
    \/ x.published_at > y.published_at
    \/ x.published_at = y.published_at /\ x.id < y.id

\* C11: two calls of clusterArticles on the same list and threshold return
\* the same clusters in the same order with the same members in the same
\* order; the clusters are in the order their first members are visited and
\* the members of a cluster in the order they are visited, newest first with
\* ties in input order.
C11_Deterministic ==
    /\ again # None => again = output
    /\ output # None =>
          LET clusters == output[1]
          IN  /\ \A i, j \in DOMAIN clusters :
                    i < j => VisitedBefore(clusters[i].articles[1],
                                           clusters[j].articles[1])
              /\ \A i \in DOMAIN clusters :
                    \A a, b \in DOMAIN clusters[i].articles :
                       a < b => VisitedBefore(clusters[i].articles[a],
                                              clusters[i].articles[b])

\* a batch of three with a tie was clustered twice, the tied articles in
\* input order in one cluster
C11_Witness ==
    /\ again # None
    /\ Len(input) = 3
    /\ \E i \in DOMAIN output[1] :
          /\ Len(output[1][i].articles) >= 2
          /\ output[1][i].articles[1].published_at =
                output[1][i].articles[2].published_at

\* the ids of the articles of a cluster
Ids(c) == {c.articles[i].id : i \in DOMAIN c.articles}

\* the clusters of at least 2 members among the clusters of a batch
Qualifying(articles) ==
    LET two(c) == Len(c.articles) >= 2
    IN  SelectSeq(clusterArticles(articles, Threshold), two)

\* C12: a run in which every persistence call succeeded has inserted exactly
\* one Story for each cluster of at least 2 members of its batch, linked to
\* the members of that cluster, and none for a singleton; the batch of five
\* in which only A and B are similar gives the cluster {A, B}, three
\* singletons and exactly 1 Story.
C12_OneStoryPerCluster ==
    \A p \in ClusterProcs :
       LET r == run[p]
           all == clusterArticles(r.articles, Threshold)
    IN  r.pc = "ret" /\ r.fetched = "ok" /\ r.dbErrors = 0 =>
           /\ r.clusters = Qualifying(r.articles)
           /\ Len(r.made) = Len(r.clusters)
           /\ \A k \in DOMAIN r.made :
                 /\ Cardinality({st \in stories : st.id = r.made[k]}) = 1
                 /\ \A j \in DOMAIN r.made : r.made[j] = r.made[k] => j = k
                 /\ {l.article_id : l \in {m \in story_articles :
                                              m.story_id = r.made[k]}}
                       = Ids(r.clusters[k])
           /\ Len(r.articles) = 5 =>
                 /\ Len(all) = 4
                 /\ Ids(all[1]) = {1, 2}
                 /\ \A i \in 2..4 : Len(all[i].articles) = 1
                 /\ Len(r.made) = 1

\* the run on the batch of five returned with every persistence call
\* succeeded and one Story
C12_Witness ==
    /\ run["cron"].pc = "ret"
    /\ run["cron"].fetched = "ok"
    /\ run["cron"].dbErrors = 0
    /\ Len(run["cron"].articles) = 5
    /\ Cardinality(stories) = 1
    /\ run["cron"].result.storiesCreated = 1

C14_JobTypesIndependent ==
    [][/\ \A p \in ClusterWrappers :
            run[p].pc = "idle" /\ run'[p].pc # "idle"
               /\ ~jobStatus.clustering.isRunning =>
                  /\ run'[p].pc = "fetch"
                  /\ jobStatus'.clustering.isRunning
       /\ \A p \in IngestProcs :
            ingest[p] = "idle" /\ ingest'[p] # "idle"
               /\ ~jobStatus.ingestion.isRunning =>
                  /\ ingest'[p] = "fetch"
                  /\ jobStatus'.ingestion.isRunning
       /\ run' # run => jobStatus'.ingestion = jobStatus.ingestion
       /\ ingest' # ingest => jobStatus'.clustering = jobStatus.clustering]_vars

\* both job types are running at once, each admitted while the other ran or
\* not
C14_Witness ==
    /\ jobStatus.clustering.isRunning
    /\ jobStatus.ingestion.isRunning
    /\ \E p \in ClusterWrappers : run[p].pc = "synth"
    /\ \E p \in IngestProcs : ingest[p] = "json"

EqualIgnoringCase(a, b) == Fold(a) = Fold(b)

\* C15: when entity resolution in the pipeline has returned an id, the store
\* having answered every call, that id is the id of an Entity whose name
\* equals the given name ignoring case: the existing one, or the one it
\* created.
C15_ResolvesEqualName ==
    \A p \in ClusterProcs :
       LET r == run[p]
       IN  r.pc = "entLink" /\ faults = 0 =>
              \E e \in entities :
                 /\ e.id = r.entityId
                 /\ EqualIgnoringCase(e.name, r.synthesis.entities[1][r.ei].name)

\* C16: no two Entity rows have names that are equal ignoring case,
\* whatever their types and whoever wrote them.
C16_NoCaseDuplicates ==
    \A e1, e2 \in entities : EqualIgnoringCase(e1.name, e2.name) => e1 = e2

\* C17: for every triple a run has merged, entity_connections holds exactly
\* one row, and that row carries the label, strength, evidence and story_id
\* of the last merge of the triple.
C17_MergeKeepsSecond ==
    \A p \in ClusterProcs :
       LET merged == run[p].merged
       IN  \A j \in DOMAIN merged :
              (\A k \in DOMAIN merged : k > j => ~SameTriple(merged[k], merged[j])) =>
                 {c \in entity_connections : SameTriple(c, merged[j])} = {merged[j]}

\* one triple was merged twice from the first story, with different strength
\* and evidence, and again from the second story, whose values the row has
C17_Witness ==
    LET merged == run["cron"].merged
    IN  \E i, j, k \in DOMAIN merged :
           /\ i < j /\ j < k /\ k = Len(merged)
           /\ SameTriple(merged[i], merged[j]) /\ SameTriple(merged[j], merged[k])
           /\ merged[i].story_id = merged[j].story_id
           /\ merged[i].strength # merged[j].strength
           /\ merged[i].evidence # merged[j].evidence
           /\ merged[k].story_id # merged[j].story_id
           /\ merged[k] \in entity_connections

\* C18: when the source or the target of a connection resolved to no Entity,
\* the step writes no EntityConnection row and creates no Entity and the
\* materialization goes on with the next connection or with the impacts; and
\* a materialization that ends in the connections or the impacts returns the
\* story id.
C18_UnresolvedIsSkipped ==
    [][\A p \in ClusterProcs :
          LET r == run[p]
              connections == r.synthesis.connections[1]
              impacts == r.synthesis.impacts[1]
          IN  /\ r.pc = "connTarget" /\ run'[p] # r
                    /\ (r.sourceId = NoId \/ FindEntity(connections[r.ki].target) = None) =>
                       /\ entity_connections' = entity_connections
                       /\ entities' = entities
                       /\ run'[p].storyId = r.storyId
                       /\ IF r.ki < Len(connections)
                          THEN run'[p].pc = "connSource" /\ run'[p].ki = r.ki + 1
                          ELSE IF Len(impacts) > 0 THEN run'[p].pc = "impacts"
                               ELSE run'[p].pc = "clusterDone"
              /\ r.pc \in {"connTarget", "connUpsert", "impacts"}
                    /\ run'[p].pc = "clusterDone" =>
                       run'[p].ret = r.storyId /\ r.storyId # NoId]_vars

\* a materialization returned the story id although the source of one of its
\* connections names no Entity; a later connection and the impacts are in
\* the store
C18_Witness ==
    LET r == run["cron"]
    IN  /\ r.pc = "clusterDone" /\ r.ret = r.storyId /\ r.storyId # NoId
        /\ faults = 0
        /\ \E k \in DOMAIN r.synthesis.connections[1] :
              /\ k < Len(r.synthesis.connections[1])
              /\ \A e \in entities :
                    ~ILike(e.name, r.synthesis.connections[1][k].source)
        /\ \E c \in entity_connections : c.story_id = r.storyId
        /\ \E row \in story_impacts : row.story_id = r.storyId

\* C19: story_entities never holds two rows for one (story, entity) pair,
\* and linking a pair that is linked already leaves the table as it is and
\* lets the materialization go on with the next entity.
C19_OneLinkPerPair ==
    [][/\ \A l1, l2 \in story_entities' :
            l1.story_id = l2.story_id /\ l1.entity_id = l2.entity_id => l1 = l2
       /\ \A p \in ClusterProcs :
            LET r == run[p]
            IN  r.pc = "entLink" /\ run'[p] # r
                   /\ (\E l \in story_entities :
                          l.story_id = r.storyId /\ l.entity_id = r.entityId) =>
                      /\ story_entities' = story_entities
                      /\ run'[p].storyId = r.storyId
                      /\ IF r.ei < Len(r.synthesis.entities[1])
                         THEN run'[p].pc = "entLookup" /\ run'[p].ei = r.ei + 1
                         ELSE run'[p].pc \in {"connSource", "impacts", "clusterDone"}]_vars

\* a materialization whose synthesis names one entity twice, with another
\* role, returned the story id, and the pair has the one row of the first
\* link
C19_Witness ==
    LET r == run["cron"]
        named == r.synthesis.entities[1]
    IN  /\ r.pc = "clusterDone" /\ r.ret = r.storyId /\ r.storyId # NoId
        /\ faults = 0
        /\ \E i, j \in DOMAIN named :
              /\ i < j
              /\ EqualIgnoringCase(named[i].name, named[j].name)
              /\ named[i].role # named[j].role
              /\ \E e \in entities :
                    /\ EqualIgnoringCase(e.name, named[i].name)
                    /\ {l \in story_entities :
                           l.story_id = r.storyId /\ l.entity_id = e.id}
                         = {[story_id |-> r.storyId, entity_id |-> e.id,
                             role |-> named[i].role, context |-> named[i].context]}

\* C20: after a materialization that returned a story id, the store having
\* answered every call, story_impacts holds exactly one row for the story
\* and each sector the impacts of the synthesis name.
C20_OneImpactPerSector ==
    \A p \in ClusterProcs :
       LET r == run[p]
       IN  r.pc = "clusterDone" /\ r.ret # NoId /\ faults = 0 =>
              \A i \in DOMAIN r.synthesis.impacts[1] :
                 Cardinality({row \in story_impacts :
                                /\ row.story_id = r.ret
                                /\ row.sector_id = r.synthesis.impacts[1][i].sector}) = 1

\* C21: when a clustering run that executed returns, its caller receives the
\* result of the run (the route in the body it sends, a wrapper as the value
\* its promise resolves with) and job_logs holds a record of a clustering
\* job.
C21_ResultReturnedAndLogged ==
    [][\A p \in ClusterProcs :
          run[p].pc = "ret" /\ run'[p].pc = "idle" =>
             /\ reply'[p] # None
             /\ p \in RouteProcs => /\ reply'[p][1].success
                                    /\ reply'[p][1].result = run[p].result
             /\ p \in ClusterWrappers => reply'[p][1] = run[p].result
             /\ \E l \in job_logs' : l.job_type = "clustering"]_vars

\* C22: whenever createStoryFromCluster returns a story id, story_articles
\* holds, for every member article of the cluster, a row of that story whose
\* relevance_score is the similarity of the cluster.
C22_MembersLinked ==
    \A p \in ClusterProcs :
       LET r == run[p]
       IN  r.pc = "clusterDone" /\ r.ret # NoId =>
              \A i \in DOMAIN r.clusters[r.ci].articles :
                 [story_id |-> r.ret,
                  article_id |-> r.clusters[r.ci].articles[i].id,
                  relevance_score |-> r.clusters[r.ci].similarity] \in story_articles

\* the text `${title} ${excerpt}` of an article, as its raw words
TextOf(a) == a.title \o a.excerpt

\* C23: calculateSimilarity is 1.0 for any two articles of the batch whose
\* title+excerpt text is identical.
C23_IdenticalTextIsOne ==
    output # None =>
       \A i, j \in DOMAIN input :
          i # j /\ TextOf(input[i]) = TextOf(input[j]) =>
             calculateSimilarity(input[i], input[j]) = Scale

\* C24: calculateSimilarity is 0.0 for any two articles of the batch whose
\* token sets share no token, an empty token sequence included.
C24_DisjointIsZero ==
    output # None =>
       \A i, j \in DOMAIN input :
          i # j /\ Range(tokenize(TextOf(input[i])))
                      \cap Range(tokenize(TextOf(input[j]))) = {} =>
             calculateSimilarity(input[i], input[j]) = 0

\* C25: for every pair of articles of the batch calculateSimilarity is
\* symmetric and its value lies in [0, 1].
C25_SymmetricInUnitInterval ==
    output # None =>
       \A i, j \in DOMAIN input :
          i # j =>
             /\ calculateSimilarity(input[i], input[j])
                   = calculateSimilarity(input[j], input[i])
             /\ calculateSimilarity(input[i], input[j]) \in 0..Scale

\* the mean similarity of x to members is a number and at least t
Reaches(members, x, t) ==
    LET avg == avgSimilarity(members, x)
    IN  avg # NaN /\ avg >= t

\* the members of cluster c that are visited before x
MembersBefore(c, x) ==
    LET before(m) == VisitedBefore(m, x)
    IN  SelectSeq(c.articles, before)

\* C26: a member added to a cluster had a mean similarity to the members
\* the cluster had at that moment of at least the threshold, a mean equal to
\* the threshold included; a candidate scanned for a cluster and left out of
\* it had a mean below the threshold (or no mean at all).
C26_AdmittedIffMeanReaches ==
    output # None =>
       LET clusters == output[1]
       IN  /\ \A c \in DOMAIN clusters :
                \A k \in 2..Len(clusters[c].articles) :
                   Reaches(SubSeq(clusters[c].articles, 1, k - 1),
                           clusters[c].articles[k], threshold)
           /\ \A c, d \in DOMAIN clusters :
                c < d =>
                   \A k \in DOMAIN clusters[d].articles :
                      ~Reaches(MembersBefore(clusters[c], clusters[d].articles[k]),
                               clusters[d].articles[k], threshold)

\* at threshold 1 a candidate identical in text to the seed, its mean equal
\* to the threshold, was added, and another article was left out
C26_Witness ==
    /\ output # None
    /\ threshold = Scale
    /\ Len(output[1]) = 2
    /\ \E c \in DOMAIN output[1] :
          /\ Len(output[1][c].articles) = 2
          /\ avgSimilarity(<<output[1][c].articles[1]>>, output[1][c].articles[2])
                = threshold

\* the least element of a set of numbers
MinOf(S) == CHOOSE m \in S : \A x \in S : m <= x

\* the means at which the members of a cluster after the seed were added
AdmissionAverages(c) ==
    {avgSimilarity(SubSeq(c.articles, 1, k - 1), c.articles[k])
       : k \in 2..Len(c.articles)}

\* C27: the score of a cluster at return is the least of 1 and the
\* admission averages of its added members (so it never rose above 1 nor
\* above an earlier average): 1 for a singleton, and between the threshold
\* and 1 for a cluster of 2 or more members.
C27_ScoreIsMinimum ==
    output # None =>
       \A c \in DOMAIN output[1] :
          LET cluster == output[1][c]
          IN  /\ cluster.similarity = MinOf({Scale} \cup AdmissionAverages(cluster))
              /\ Len(cluster.articles) = 1 => cluster.similarity = Scale
              /\ Len(cluster.articles) >= 2 =>
                    threshold <= cluster.similarity /\ cluster.similarity <= Scale

\* a cluster of three whose second admission average is above its first:
\* the score is the first
C27_Witness ==
    /\ output # None
    /\ \E c \in DOMAIN output[1] :
          LET cluster == output[1][c]
          IN  /\ Len(cluster.articles) = 3
              /\ avgSimilarity(SubSeq(cluster.articles, 1, 2), cluster.articles[3])
                    > avgSimilarity(<<cluster.articles[1]>>, cluster.articles[2])
              /\ cluster.similarity
                    = avgSimilarity(<<cluster.articles[1]>>, cluster.articles[2])
              /\ cluster.similarity < Scale

\* C30: every member of a cluster after its seed reached the threshold
\* against the members visited before it, that is at the one time it was
\* scanned for the cluster; a candidate that did not is in a later cluster,
\* whatever its mean against the members the cluster has at return.
C30_ScannedOnce ==
    output # None =>
       LET clusters == output[1]
       IN  \A c \in DOMAIN clusters :
              \A x \in DOMAIN input :
                 LET before == MembersBefore(clusters[c], input[x])
                 IN  before # <<>> /\ ~Reaches(before, input[x], threshold) =>
                        input[x].id \notin Ids(clusters[c])

\* a candidate left out of a cluster although its mean against the members
\* the cluster has at return reaches the threshold
C30_Witness ==
    /\ output # None
    /\ \E c \in DOMAIN output[1] :
          \E x \in DOMAIN input :
             /\ input[x].id \notin Ids(output[1][c])
             /\ MembersBefore(output[1][c], input[x]) # <<>>
             /\ ~Reaches(MembersBefore(output[1][c], input[x]), input[x], threshold)
             /\ Len(output[1][c].articles) = 2
             /\ Reaches(output[1][c].articles, input[x], threshold)

\* C28: after a materialization that returned a story id, the store having
\* answered every call and POST /process having written nothing, every
\* entity of the synthesis, of a type the synthesis contract allows, is
\* found by the lookup of the pipeline and linked to the story.
C28_EveryEntityLinked ==
    \A p \in ClusterProcs :
       LET r == run[p]
       IN  r.pc = "clusterDone" /\ r.ret # NoId /\ faults = 0
              /\ analysis = IdleAnalysis =>
              \A i \in DOMAIN r.synthesis.entities[1] :
                 r.synthesis.entities[1][i].type \in SynthesisTypes =>
                    \E e \in entities :
                       /\ ILike(e.name, r.synthesis.entities[1][i].name)
                       /\ \E l \in story_entities :
                             l.story_id = r.ret /\ l.entity_id = e.id

\* the stage of createStoryFromCluster an await belongs to: the Story row,
\* the article links, the entities, the connections, the impacts, its return
Stage(pc) ==
    CASE pc = "insertStory" -> 1
      [] pc = "insertLinks" -> 2
      [] pc \in {"entLookup", "entInsert", "entLink"} -> 3
      [] pc \in {"connSource", "connTarget", "connUpsert"} -> 4
      [] pc = "impacts" -> 5
      [] pc = "clusterDone" -> 6
      [] OTHER -> 0

StoryExists(id) == \E s \in stories : s.id = id

HasEntityLinks(id) == \E l \in story_entities : l.story_id = id

HasConnections(id) == \E k \in entity_connections : k.story_id = id

HasImpacts(id) == \E i \in story_impacts : i.story_id = id

\* C29: within one materialization the stages follow one another in the
\* order Story row, article links, entities with their story links,
\* connections, impacts; every row written for a story is written by the
\* materialization of that story in the stage of its table, when the Story
\* row exists and no row of a later stage of that story does.
C29_WritesInOrder ==
    [][/\ \A p \in ClusterProcs :
             /\ Stage(run[p].pc) \in 1..5 => Stage(run'[p].pc) >= Stage(run[p].pc)
             /\ Stage(run[p].pc) \in {0, 6} => Stage(run'[p].pc) \in {0, 1, 6}
       /\ \A s \in stories' \ stories :
             /\ \E p \in ClusterProcs :
                   run[p].pc = "insertStory" /\ run'[p].storyId = s.id
             /\ \A l \in story_articles : l.story_id # s.id
             /\ ~HasEntityLinks(s.id) /\ ~HasConnections(s.id) /\ ~HasImpacts(s.id)
       /\ \A l \in story_articles' \ story_articles :
             /\ \E p \in ClusterProcs :
                   run[p].pc = "insertLinks" /\ run[p].storyId = l.story_id
             /\ StoryExists(l.story_id)
             /\ ~HasEntityLinks(l.story_id) /\ ~HasConnections(l.story_id)
             /\ ~HasImpacts(l.story_id)
       /\ \A e \in entities' \ entities :
             \/ analysis.pc = "insert"
             \/ \E p \in ClusterProcs :
                   /\ run[p].pc = "entInsert"
                   /\ StoryExists(run[p].storyId)
                   /\ ~HasConnections(run[p].storyId) /\ ~HasImpacts(run[p].storyId)
       /\ \A l \in story_entities' \ story_entities :
             /\ \E p \in ClusterProcs :
                   run[p].pc = "entLink" /\ run[p].storyId = l.story_id
             /\ StoryExists(l.story_id)
             /\ ~HasConnections(l.story_id) /\ ~HasImpacts(l.story_id)
       /\ \A k \in entity_connections' \ entity_connections :
             /\ \E p \in ClusterProcs :
                   run[p].pc = "connUpsert" /\ run[p].storyId = k.story_id
             /\ StoryExists(k.story_id)
             /\ ~HasImpacts(k.story_id)
       /\ \A i \in story_impacts' \ story_impacts :
             /\ \E p \in ClusterProcs :
                   run[p].pc = "impacts" /\ run[p].storyId = i.story_id
             /\ StoryExists(i.story_id)]_vars

\* a materialization returned the id of a story for which every stage wrote
C29_Witness ==
    \E p \in ClusterProcs :
       /\ run[p].pc = "clusterDone"
       /\ run[p].ret # NoId
       /\ StoryExists(run[p].ret)
       /\ \E l \in story_articles : l.story_id = run[p].ret
       /\ HasEntityLinks(run[p].ret)
       /\ HasConnections(run[p].ret)
       /\ HasImpacts(run[p].ret)

====
